---- MODULE Spec2Model ----
(***************************************************************************)
(* Web-Tuner (popup.js): the tuner's start/stop lifecycle, the per-frame   *)
(* pitch pipeline detectPitch -> autoCorrelate -> smoothFrequency ->       *)
(* frequencyToNote, and the module-level smoother state.                   *)
(*                                                                         *)
(* Numbers.  JavaScript numbers are modelled in fixed point: a frequency   *)
(* is an integer count of 1/Scale Hz and every arithmetic result is        *)
(* rounded to the nearest unit (the code's doubles round to the nearest    *)
(* representable value).  Comparisons the code makes on quotients are made *)
(* here by cross-multiplication, so they are exact.                        *)
(*                                                                         *)
(* Frames.  The 8192 float samples of a frame are represented by what the  *)
(* code computes from them: the number of samples (size), the sum of the   *)
(* squared samples (sumSq, in units of 0.0001), and the normalised         *)
(* autocorrelation at each integer lag (corr, in hundredths; a lag that is *)
(* not listed has correlation 0).                                          *)
(***************************************************************************)
EXTENDS Integers, Sequences, FiniteSets, TLC

VARIABLES
    isRunning,          \* popup.js:6
    lastFrequency,      \* popup.js:7   (-1 Hz = unset)
    frequencyHistory,   \* popup.js:8
    animationFrameId,   \* popup.js:5   (0 = null)
    audioContext,       \* popup.js:2   "null" | "running" | "closed"
    mediaStream,        \* popup.js:4   "null" | "live" | "stopped"
    startBtn,           \* startBtn.style.display
    stopBtn,            \* stopBtn.style.display
    tunerDiv,           \* tunerDiv.style.display
    statusDiv,          \* statusDiv.textContent
    noteDisplay,        \* noteDisplay.textContent
    frequencyDisplay,   \* frequencyDisplay.textContent
    centsDisplay,       \* centsDisplay.textContent and centsDisplay.className
    graph,              \* what the canvas shows: "cleared", "axes", or the marker's colour
    pendingCaptures,    \* startTuner invocations awaiting the tabCapture callback
    pendingFrames,      \* ids of requested animation frames not yet run or cancelled
    rawInputs,          \* history variable: arguments of smoothFrequency since the last reset
    emitted,            \* history variable: results of smoothFrequency since the last reset
    ev                  \* history variable: the operation that ran last, its input and result

smoother == <<lastFrequency, frequencyHistory>>
displays == <<noteDisplay, frequencyDisplay, centsDisplay, graph>>
controls == <<startBtn, stopBtn, tunerDiv>>
hist == <<rawInputs, emitted>>

vars == <<isRunning, lastFrequency, frequencyHistory, animationFrameId, audioContext,
          mediaStream, startBtn, stopBtn, tunerDiv, statusDiv, noteDisplay,
          frequencyDisplay, centsDisplay, graph, pendingCaptures, pendingFrames,
          rawInputs, emitted, ev>>

---------------------------------------------------------------------------
(* Bounds of the model                                                     *)

\* decimal digits kept after the point by the fixed-point numbers
Digits == 4
\* valid pitch estimates one tuning session processes (Spec)
MaxFrames == 3
\* calls of smoothFrequency in a row (SmootherSpec)
MaxCalls == 6
\* Start clicks whose tabCapture callback has not yet arrived
MaxPendingStarts == 2
\* animation frames requested and not yet run at one time
MaxLoops == 2

Scale == 10 ^ Digits
Hz(n) == n * Scale

Abs(x) == IF x < 0 THEN -x ELSE x
Min(a, b) == IF a < b THEN a ELSE b

\* a / b rounded to the nearest integer (a >= 0, b > 0)
RoundDiv(a, b) == (a + b \div 2) \div b

RECURSIVE Gcd(_, _)
Gcd(a, b) == IF b = 0 THEN a ELSE Gcd(b, a % b)

---------------------------------------------------------------------------
(* autoCorrelate, popup.js:166-250                                         *)

MIN_FREQUENCY == 82
MAX_FREQUENCY == 1000

\* the value -1 the code returns and stores for "no pitch" / "unset"
NoPitch == Hz(-1)

\* rms < 0.01, with rms = sqrt(sum of squares / size); NaN (size 0) compares false
RmsBelowThreshold(buffer) == buffer.size > 0 /\ buffer.sumSq < buffer.size

\* the normalised correlation the loops compute for one offset, in hundredths
Correlation(buffer, offset) ==
    IF offset \in DOMAIN buffer.corr THEN buffer.corr[offset] ELSE 0

\* for (offset = lo; offset < hi; offset++) if (correlation > best_correlation) ...
\* the first offset holding the largest correlation above 0, or -1
BestOffset(buffer, lo, hi) ==
    LET cand == {o \in DOMAIN buffer.corr : o >= lo /\ o < hi /\ buffer.corr[o] > 0}
        top == {o \in cand : \A p \in cand : buffer.corr[p] <= buffer.corr[o]}
    IN IF cand = {} THEN -1 ELSE CHOOSE o \in top : \A p \in top : o <= p

\* frequency >= MIN_FREQUENCY && frequency <= MAX_FREQUENCY for frequency = n / d
\* (d = 0 gives Infinity or NaN, which fails the test)
\* (variant: the upper end excluded)
InRangeStrictMax(n, d) == d > 0 /\ n >= MIN_FREQUENCY * d /\ n < MAX_FREQUENCY * d
InRange(n, d) == d > 0 /\ n >= MIN_FREQUENCY * d /\ n <= MAX_FREQUENCY * d

\* n / d in fixed point
ToFixed(n, d) == (n \div d) * Scale + RoundDiv((n % d) * Scale, d)

\* lines 167-239: what the search and the parabolic refinement arrive at.
\* found: best_offset !== -1; strong: best_correlation > 0.5;
\* fn / fd: sampleRate / refined_offset
Candidate(buffer, sampleRate) ==
    LET SIZE == buffer.size
        MAX_SAMPLES == SIZE \div 2
        MAX_OFFSET == sampleRate \div MIN_FREQUENCY
        MIN_OFFSET == sampleRate \div MAX_FREQUENCY
        best_offset == BestOffset(buffer, MIN_OFFSET, Min(MAX_OFFSET, MAX_SAMPLES))
        best_correlation == IF best_offset = -1 THEN 0 ELSE Correlation(buffer, best_offset)
        c1 == Correlation(buffer, best_offset - 1)
        c2 == Correlation(buffer, best_offset)
        c3 == Correlation(buffer, best_offset + 1)
        \* delta = 0.5 * (c1 - c3) / (c1 - 2 * c2 + c3) = num / den
        num0 == c1 - c3
        den0 == 2 * (c1 - 2 * c2 + c3)
        g == Gcd(Abs(num0), Abs(den0))
        num == IF den0 < 0 THEN (-num0) \div g ELSE num0 \div g
        den == Abs(den0) \div g
        interior == best_offset > MIN_OFFSET /\ best_offset < MAX_OFFSET - 1
        \* !isNaN(delta) && Math.abs(delta) < 1
        refine == interior /\ den0 # 0 /\ Abs(num0) < Abs(den0)
    IN [found |-> best_offset # -1,
        strong |-> best_correlation > 50,
        offset |-> best_offset,
        refined |-> refine,
        fn |-> IF refine THEN sampleRate * den ELSE sampleRate,
        fd |-> IF refine THEN best_offset * den + num ELSE best_offset]

\* the whole function: a frequency in fixed point, or NoPitch
autoCorrelate(buffer, sampleRate) ==
    LET c == Candidate(buffer, sampleRate)
    IN IF RmsBelowThreshold(buffer) THEN NoPitch
       ELSE IF c.strong /\ c.found /\ InRange(c.fn, c.fd)
            THEN ToFixed(c.fn, c.fd)
            ELSE NoPitch

---------------------------------------------------------------------------
(* smoothFrequency, popup.js:253-288                                       *)

HISTORY_SIZE == 5

\* frequencyHistory.push(frequency); if (length > HISTORY_SIZE) shift()
\* (variant: nothing is evicted)
PushNoEvict(history, frequency) == Append(history, frequency)
PushHistory(history, frequency) ==
    LET h == Append(history, frequency)
    IN IF Len(h) > HISTORY_SIZE THEN Tail(h) ELSE h

\* Math.abs(ratio - 0.5) < 0.1 || Math.abs(ratio - 2.0) < 0.2, ratio = frequency / last
OctaveBand(frequency, last) ==
    \/ Abs(10 * frequency - 5 * last) < last
    \/ Abs(5 * frequency - 10 * last) < last

\* Math.abs(ratio - 1.0) < 0.5
NormalBand(frequency, last) == Abs(2 * frequency - 2 * last) < last

\* [...frequencyHistory].sort((a, b) => a - b)
RECURSIVE SortAsc(_)
SortAsc(s) ==
    IF s = <<>> THEN <<>>
    ELSE LET i == CHOOSE i \in 1..Len(s) : \A j \in 1..Len(s) : s[i] <= s[j]
         IN <<s[i]>> \o SortAsc(SubSeq(s, 1, i - 1) \o SubSeq(s, i + 1, Len(s)))

\* sorted[Math.floor(sorted.length / 2)]  (0-based index)
\* (variant: index 0 instead of the middle)
MedianFirst(history) == SortAsc(history)[1]
Median(history) == SortAsc(history)[Len(history) \div 2 + 1]

\* lastFrequency * 0.9 + frequency * 0.1
\* (variant: equal weights)
OctaveBlendEven(frequency, last) == RoundDiv(5 * last + 5 * frequency, 10)
OctaveBlend(frequency, last) == RoundDiv(9 * last + frequency, 10)

\* lastFrequency * SMOOTHING_FACTOR + frequency * (1 - SMOOTHING_FACTOR), SMOOTHING_FACTOR = 0.7
\* (variant: weights that do not add up to 1)
NormalBlendHeavy(frequency, last) == RoundDiv(7 * last + 4 * frequency, 10)
NormalBlend(frequency, last) == RoundDiv(7 * last + 3 * frequency, 10)

\* the value returned, given the state before the call
\* (variant: the normal-variation band tested before the octave band)
SmoothedValueNormalFirst(history, last, frequency) ==
    LET pushed == PushHistory(history, frequency)
    IN IF last > 0
       THEN IF NormalBand(frequency, last) THEN NormalBlend(frequency, last)
            ELSE IF OctaveBand(frequency, last) THEN OctaveBlend(frequency, last)
            ELSE IF Len(pushed) >= 3 THEN Median(pushed)
            ELSE frequency
       ELSE frequency
SmoothedValue(history, last, frequency) ==
    LET pushed == PushHistory(history, frequency)
    IN IF last > 0
       THEN IF OctaveBand(frequency, last) THEN OctaveBlend(frequency, last)
            ELSE IF NormalBand(frequency, last) THEN NormalBlend(frequency, last)
            ELSE IF Len(pushed) >= 3 THEN Median(pushed)
            ELSE frequency
       ELSE frequency

---------------------------------------------------------------------------
(* frequencyToNote and frequencyToCents, popup.js:291-311                  *)

noteStrings == <<"C", "C#", "D", "D#", "E", "F", "F#", "G", "G#", "A", "A#", "B">>

\* 440 * 2^(k/1200) for k = 0..1200, in units of 0.0001 Hz: the frequencies at
\* which 1200 * Math.log(f / 440) / Math.log(2) reaches the integer k
CentTable == <<
    4400000, 4402542, 4405086, 4407631, 4410178, 4412726, 4415276, 4417827, 4420379, 4422933,
    4425489, 4428046, 4430604, 4433164, 4435726, 4438289, 4440853, 4443419, 4445986, 4448555,
    4451126, 4453697, 4456271, 4458845, 4461422, 4463999, 4466579, 4469159, 4471742, 4474325,
    4476911, 4479497, 4482086, 4484675, 4487266, 4489859, 4492453, 4495049, 4497646, 4500245,
    4502845, 4505447, 4508050, 4510655, 4513261, 4515869, 4518478, 4521089, 4523701, 4526315,
    4528930, 4531547, 4534165, 4536785, 4539406, 4542029, 4544653, 4547279, 4549906, 4552535,
    4555166, 4557798, 4560431, 4563066, 4565703, 4568341, 4570980, 4573621, 4576264, 4578908,
    4581553, 4584201, 4586849, 4589500, 4592151, 4594805, 4597459, 4600116, 4602774, 4605433,
    4608094, 4610757, 4613421, 4616086, 4618753, 4621422, 4624092, 4626764, 4629437, 4632112,
    4634789, 4637466, 4640146, 4642827, 4645510, 4648194, 4650879, 4653567, 4656255, 4658946,
    4661638, 4664331, 4667026, 4669723, 4672421, 4675120, 4677822, 4680524, 4683229, 4685935,
    4688642, 4691351, 4694062, 4696774, 4699488, 4702203, 4704920, 4707638, 4710358, 4713080,
    4715803, 4718528, 4721254, 4723982, 4726712, 4729443, 4732175, 4734910, 4737645, 4740383,
    4743122, 4745862, 4748604, 4751348, 4754093, 4756840, 4759589, 4762339, 4765090, 4767843,
    4770598, 4773355, 4776113, 4778872, 4781633, 4784396, 4787161, 4789927, 4792694, 4795463,
    4798234, 4801006, 4803780, 4806556, 4809333, 4812112, 4814892, 4817674, 4820458, 4823243,
    4826030, 4828818, 4831608, 4834400, 4837193, 4839988, 4842785, 4845583, 4848383, 4851184,
    4853987, 4856791, 4859598, 4862405, 4865215, 4868026, 4870839, 4873653, 4876469, 4879286,
    4882106, 4884927, 4887749, 4890573, 4893399, 4896226, 4899055, 4901886, 4904718, 4907552,
    4910387, 4913225, 4916063, 4918904, 4921746, 4924590, 4927435, 4930282, 4933131, 4935981,
    4938833, 4941687, 4944542, 4947399, 4950257, 4953118, 4955979, 4958843, 4961708, 4964575,
    4967443, 4970314, 4973185, 4976059, 4978934, 4981811, 4984689, 4987569, 4990451, 4993334,
    4996219, 4999106, 5001995, 5004885, 5007777, 5010670, 5013565, 5016462, 5019360, 5022260,
    5025162, 5028066, 5030971, 5033878, 5036786, 5039697, 5042608, 5045522, 5048437, 5051354,
    5054273, 5057193, 5060115, 5063039, 5065964, 5068891, 5071820, 5074750, 5077683, 5080616,
    5083552, 5086489, 5089428, 5092369, 5095311, 5098255, 5101201, 5104148, 5107097, 5110048,
    5113001, 5115955, 5118911, 5121868, 5124828, 5127789, 5130752, 5133716, 5136682, 5139650,
    5142620, 5145591, 5148564, 5151539, 5154516, 5157494, 5160474, 5163455, 5166439, 5169424,
    5172411, 5175399, 5178390, 5181382, 5184375, 5187371, 5190368, 5193367, 5196368, 5199370,
    5202374, 5205380, 5208388, 5211397, 5214408, 5217421, 5220436, 5223452, 5226470, 5229490,
    5232511, 5235535, 5238560, 5241586, 5244615, 5247645, 5250677, 5253711, 5256747, 5259784,
    5262823, 5265864, 5268906, 5271951, 5274997, 5278045, 5281094, 5284145, 5287199, 5290254,
    5293310, 5296369, 5299429, 5302491, 5305554, 5308620, 5311687, 5314756, 5317827, 5320900,
    5323974, 5327050, 5330128, 5333208, 5336289, 5339372, 5342457, 5345544, 5348633, 5351723,
    5354815, 5357909, 5361005, 5364103, 5367202, 5370303, 5373406, 5376511, 5379617, 5382726,
    5385836, 5388947, 5392061, 5395177, 5398294, 5401413, 5404534, 5407657, 5410781, 5413907,
    5417035, 5420165, 5423297, 5426431, 5429566, 5432703, 5435842, 5438983, 5442125, 5445270,
    5448416, 5451564, 5454714, 5457866, 5461019, 5464174, 5467332, 5470490, 5473651, 5476814,
    5479978, 5483145, 5486313, 5489483, 5492654, 5495828, 5499003, 5502181, 5505360, 5508541,
    5511724, 5514908, 5518095, 5521283, 5524473, 5527665, 5530859, 5534055, 5537252, 5540451,
    5543653, 5546856, 5550061, 5553267, 5556476, 5559686, 5562899, 5566113, 5569329, 5572547,
    5575767, 5578988, 5582212, 5585437, 5588664, 5591893, 5595124, 5598357, 5601592, 5604828,
    5608067, 5611307, 5614549, 5617793, 5621039, 5624287, 5627537, 5630788, 5634041, 5637297,
    5640554, 5643813, 5647074, 5650337, 5653601, 5656868, 5660137, 5663407, 5666679, 5669953,
    5673229, 5676507, 5679787, 5683069, 5686352, 5689638, 5692925, 5696215, 5699506, 5702799,
    5706094, 5709391, 5712690, 5715991, 5719293, 5722598, 5725904, 5729213, 5732523, 5735835,
    5739149, 5742465, 5745783, 5749103, 5752425, 5755748, 5759074, 5762402, 5765731, 5769062,
    5772396, 5775731, 5779068, 5782407, 5785748, 5789091, 5792436, 5795783, 5799132, 5802482,
    5805835, 5809189, 5812546, 5815904, 5819265, 5822627, 5825991, 5829357, 5832726, 5836096,
    5839468, 5842842, 5846218, 5849595, 5852975, 5856357, 5859741, 5863127, 5866514, 5869904,
    5873295, 5876689, 5880084, 5883482, 5886881, 5890283, 5893686, 5897091, 5900499, 5903908,
    5907319, 5910732, 5914147, 5917564, 5920984, 5924405, 5927828, 5931253, 5934680, 5938109,
    5941540, 5944973, 5948408, 5951845, 5955284, 5958724, 5962167, 5965612, 5969059, 5972508,
    5975959, 5979412, 5982866, 5986323, 5989782, 5993243, 5996706, 6000171, 6003637, 6007106,
    6010577, 6014050, 6017525, 6021002, 6024481, 6027961, 6031444, 6034929, 6038416, 6041905,
    6045396, 6048889, 6052384, 6055881, 6059380, 6062881, 6066384, 6069889, 6073396, 6076905,
    6080417, 6083930, 6087445, 6090962, 6094482, 6098003, 6101526, 6105052, 6108579, 6112109,
    6115640, 6119174, 6122709, 6126247, 6129787, 6133328, 6136872, 6140418, 6143966, 6147516,
    6151068, 6154622, 6158178, 6161736, 6165296, 6168858, 6172423, 6175989, 6179557, 6183128,
    6186700, 6190275, 6193852, 6197431, 6201011, 6204594, 6208179, 6211766, 6215355, 6218946,
    6222540, 6226135, 6229732, 6233332, 6236933, 6240537, 6244143, 6247751, 6251360, 6254972,
    6258586, 6262203, 6265821, 6269441, 6273064, 6276688, 6280315, 6283943, 6287574, 6291207,
    6294842, 6298479, 6302118, 6305760, 6309403, 6313049, 6316696, 6320346, 6323998, 6327652,
    6331308, 6334966, 6338626, 6342289, 6345953, 6349620, 6353288, 6356959, 6360632, 6364307,
    6367985, 6371664, 6375345, 6379029, 6382715, 6386403, 6390093, 6393785, 6397479, 6401175,
    6404874, 6408575, 6412277, 6415982, 6419690, 6423399, 6427110, 6430824, 6434539, 6438257,
    6441977, 6445699, 6449423, 6453150, 6456878, 6460609, 6464342, 6468077, 6471814, 6475554,
    6479295, 6483039, 6486785, 6490533, 6494283, 6498035, 6501790, 6505546, 6509305, 6513066,
    6516829, 6520595, 6524362, 6528132, 6531904, 6535678, 6539454, 6543232, 6547013, 6550796,
    6554581, 6558368, 6562157, 6565949, 6569743, 6573539, 6577337, 6581137, 6584940, 6588744,
    6592551, 6596360, 6600172, 6603985, 6607801, 6611619, 6615439, 6619261, 6623086, 6626912,
    6630741, 6634573, 6638406, 6642242, 6646079, 6649919, 6653762, 6657606, 6661453, 6665302,
    6669153, 6673006, 6676862, 6680720, 6684580, 6688442, 6692307, 6696173, 6700042, 6703913,
    6707787, 6711663, 6715541, 6719421, 6723303, 6727188, 6731075, 6734964, 6738855, 6742749,
    6746645, 6750543, 6754443, 6758346, 6762251, 6766158, 6770067, 6773979, 6777893, 6781809,
    6785728, 6789648, 6793571, 6797497, 6801424, 6805354, 6809286, 6813220, 6817157, 6821096,
    6825037, 6828980, 6832926, 6836874, 6840824, 6844777, 6848732, 6852689, 6856648, 6860610,
    6864574, 6868540, 6872509, 6876480, 6880453, 6884428, 6888406, 6892386, 6896368, 6900353,
    6904340, 6908329, 6912321, 6916315, 6920311, 6924309, 6928310, 6932313, 6936319, 6940326,
    6944336, 6948349, 6952364, 6956381, 6960400, 6964422, 6968445, 6972472, 6976500, 6980531,
    6984565, 6988600, 6992638, 6996678, 7000721, 7004766, 7008813, 7012863, 7016915, 7020969,
    7025026, 7029085, 7033146, 7037210, 7041276, 7045344, 7049415, 7053488, 7057563, 7061641,
    7065721, 7069804, 7073889, 7077976, 7082066, 7086157, 7090252, 7094348, 7098447, 7102549,
    7106653, 7110759, 7114867, 7118978, 7123092, 7127207, 7131325, 7135446, 7139568, 7143694,
    7147821, 7151951, 7156083, 7160218, 7164355, 7168495, 7172637, 7176781, 7180927, 7185077,
    7189228, 7193382, 7197538, 7201697, 7205858, 7210021, 7214187, 7218355, 7222526, 7226699,
    7230875, 7235053, 7239233, 7243416, 7247601, 7251789, 7255979, 7260171, 7264366, 7268563,
    7272763, 7276965, 7281169, 7285376, 7289586, 7293798, 7298012, 7302229, 7306448, 7310669,
    7314893, 7319120, 7323349, 7327580, 7331814, 7336050, 7340289, 7344530, 7348774, 7353020,
    7357268, 7361519, 7365773, 7370028, 7374287, 7378548, 7382811, 7387077, 7391345, 7395615,
    7399888, 7404164, 7408442, 7412723, 7417006, 7421291, 7425579, 7429869, 7434162, 7438458,
    7442756, 7447056, 7451359, 7455664, 7459972, 7464282, 7468595, 7472910, 7477228, 7481548,
    7485871, 7490196, 7494524, 7498854, 7503187, 7507522, 7511860, 7516200, 7520543, 7524888,
    7529236, 7533587, 7537939, 7542295, 7546653, 7551013, 7555376, 7559741, 7564109, 7568480,
    7572853, 7577228, 7581606, 7585987, 7590370, 7594756, 7599144, 7603534, 7607928, 7612323,
    7616722, 7621123, 7625526, 7629932, 7634340, 7638751, 7643165, 7647581, 7652000, 7656421,
    7660845, 7665271, 7669700, 7674132, 7678566, 7683002, 7687441, 7691883, 7696327, 7700774,
    7705224, 7709676, 7714130, 7718587, 7723047, 7727510, 7731974, 7736442, 7740912, 7745384,
    7749860, 7754337, 7758818, 7763301, 7767786, 7772275, 7776765, 7781259, 7785755, 7790253,
    7794754, 7799258, 7803764, 7808273, 7812785, 7817299, 7821816, 7826335, 7830857, 7835382,
    7839909, 7844439, 7848971, 7853506, 7858044, 7862584, 7867127, 7871672, 7876221, 7880771,
    7885325, 7889881, 7894440, 7899001, 7903565, 7908131, 7912701, 7917273, 7921847, 7926424,
    7931004, 7935587, 7940172, 7944759, 7949350, 7953943, 7958539, 7963137, 7967738, 7972342,
    7976948, 7981557, 7986169, 7990783, 7995400, 8000020, 8004642, 8009267, 8013895, 8018525,
    8023158, 8027794, 8032432, 8037073, 8041717, 8046363, 8051012, 8055664, 8060319, 8064976,
    8069636, 8074298, 8078963, 8083631, 8088302, 8092975, 8097651, 8102330, 8107012, 8111696,
    8116383, 8121072, 8125764, 8130459, 8135157, 8139857, 8144561, 8149266, 8153975, 8158686,
    8163400, 8168117, 8172836, 8177559, 8182283, 8187011, 8191742, 8196475, 8201210, 8205949,
    8210690, 8215434, 8220181, 8224931, 8229683, 8234438, 8239196, 8243956, 8248720, 8253486,
    8258254, 8263026, 8267800, 8272577, 8277357, 8282140, 8286925, 8291713, 8296504, 8301298,
    8306094, 8310893, 8315695, 8320500, 8325307, 8330118, 8334931, 8339746, 8344565, 8349386,
    8354211, 8359038, 8363867, 8368700, 8373535, 8378373, 8383214, 8388058, 8392905, 8397754,
    8402606, 8407461, 8412319, 8417179, 8422043, 8426909, 8431778, 8436650, 8441524, 8446402,
    8451282, 8456165, 8461051, 8465940, 8470831, 8475725, 8480623, 8485523, 8490426, 8495331,
    8500240, 8505151, 8510065, 8514982, 8519902, 8524825, 8529750, 8534679, 8539610, 8544544,
    8549481, 8554421, 8559364, 8564309, 8569257, 8574209, 8579163, 8584120, 8589079, 8594042,
    8599008, 8603976, 8608947, 8613922, 8618899, 8623879, 8628861, 8633847, 8638836, 8643827,
    8648821, 8653818, 8658819, 8663822, 8668827, 8673836, 8678848, 8683862, 8688880, 8693900,
    8698923, 8703950, 8708979, 8714011, 8719045, 8724083, 8729124, 8734167, 8739214, 8744263,
    8749316, 8754371, 8759429, 8764490, 8769554, 8774621, 8779691, 8784764, 8789840, 8794918,
    8800000
>>

CentBound(k) == CentTable[k + 1] * (Scale \div 10000)

\* the largest k in lo..hi with mul * CentBound(k) <= f, given mul * CentBound(lo) <= f
RECURSIVE CentSearch(_, _, _, _)
CentSearch(f, mul, lo, hi) ==
    IF lo = hi THEN lo
    ELSE LET mid == (lo + hi + 1) \div 2
         IN IF mul * CentBound(mid) <= f
            THEN CentSearch(f, mul, mid, hi)
            ELSE CentSearch(f, mul, lo, mid - 1)

\* Math.floor(1200 * Math.log(f / (440 * mul)) / Math.log(2)) for f > 0
RECURSIVE FloorCents(_, _)
FloorCents(f, mul) ==
    IF f < mul * CentBound(0) THEN FloorCents(2 * f, mul) - 1200
    ELSE IF f >= mul * CentBound(1200) THEN FloorCents(f, 2 * mul) + 1200
    ELSE CentSearch(f, mul, 0, 1199)

\* Math.round(12 * (Math.log(frequency / 440) / Math.log(2))): round half up
RoundedNoteNum(frequency) == (FloorCents(frequency, 1) + 50) \div 100

\* JavaScript's %: the remainder takes the sign of the dividend
JsRemainder(a, b) == IF a >= 0 THEN a % b ELSE -((-a) % b)

\* noteStrings[i]: undefined outside the array
ArrayAt(i) == IF i \in 0..(Len(noteStrings) - 1) THEN noteStrings[i + 1] ELSE "undefined"

\* the ideal frequency 440 * 2^((noteIndex - 69) / 12) is carried as its distance
\* from A4 in cents, idealCents = 100 * (noteIndex - 69)
frequencyToNote(frequency) ==
    LET noteIndex == RoundedNoteNum(frequency) + 69
    IN [name |-> ArrayAt(JsRemainder(noteIndex, 12)),
        octave |-> (noteIndex \div 12) - 1,
        idealCents |-> 100 * (noteIndex - 69),
        midiNote |-> noteIndex]

\* Math.floor(1200 * Math.log(frequency / idealFrequency) / Math.log(2))
frequencyToCents(frequency, idealCents) == FloorCents(frequency, 1) - idealCents

---------------------------------------------------------------------------
(* The frames the analyser delivers, popup.js:109-111                      *)

fftSize == 8192
\* audioContext.sampleRate of the context new AudioContext() returns
sampleRate == 48000

NoCorrelation == [o \in {} |-> 0]
\* sumSq of a frame of fftSize samples whose rms is 0.5
Loud == fftSize * 2500

\* all samples zero
Silence == [size |-> fftSize, sumSq |-> 0, corr |-> NoCorrelation]
\* loud, and no offset correlates above 0.5
Noise == [size |-> fftSize, sumSq |-> Loud, corr |-> (100 :> 40 @@ 300 :> 35)]
\* peaks refined to 48000 / (218 + 2/11) = 220 Hz and 48000 / (109 + 1/11) = 440 Hz
Tone220 == [size |-> fftSize, sumSq |-> Loud, corr |-> (217 :> 60 @@ 218 :> 90 @@ 219 :> 76)]
Tone440 == [size |-> fftSize, sumSq |-> Loud, corr |-> (108 :> 38 @@ 109 :> 90 @@ 110 :> 54)]

\* peaks refined to 48000 / (109 + 3/8) = 438.857 Hz and 48000 / (109 - 1/4) = 441.379 Hz,
\* which lie 5 cents below and 5 cents above A4 after Math.floor
ToneFlat5 == [size |-> fftSize, sumSq |-> Loud, corr |-> (108 :> 20 @@ 109 :> 90 @@ 110 :> 80)]
ToneSharp5 == [size |-> fftSize, sumSq |-> Loud, corr |-> (108 :> 70 @@ 109 :> 90 @@ 110 :> 30)]

Frames == {Silence, Noise, Tone220, Tone440, ToneFlat5, ToneSharp5}

---------------------------------------------------------------------------
(* detectPitch, popup.js:106-163                                           *)

\* requestAnimationFrame returns a handle no pending request and no variable holds
FreshFrameId(pend) ==
    CHOOSE i \in 1..(Cardinality(pend) + 2) :
        /\ i \notin pend
        /\ i # animationFrameId
        /\ \A j \in 1..(i - 1) : j \in pend \/ j = animationFrameId

\* Math.abs(cents) < 5, then cents > 0, then the rest
CentsClass(cents) ==
    IF Abs(cents) < 5 THEN "in-tune" ELSE IF cents > 0 THEN "sharp" ELSE "flat"

CentsText(cents) ==
    IF Abs(cents) < 5 THEN "In Tune"
    ELSE IF cents > 0 THEN "+" \o ToString(cents) \o " cents (Sharp)"
    ELSE ToString(cents) \o " cents (Flat)"

\* drawGraph(cents, hasSignal), popup.js:314-389: the colour of the marker
MarkerColour(cents) ==
    IF Abs(cents) < 5 THEN "green" ELSE IF cents > 0 THEN "red" ELSE "blue"

\* what the history variable ev records of a handler that processed no frame
Ran(op) ==
    [op |-> op, path |-> "", raw |-> NoPitch, out |-> NoPitch,
     prevLast |-> NoPitch, prevHistory |-> <<>>, restart |-> FALSE]

\* what it records of a run of detectPitch: the branch taken, autoCorrelate's result,
\* the value shown, and the smoother state the frame found
Processed(op, path, raw, out) ==
    [op |-> op, path |-> path, raw |-> raw, out |-> out,
     prevLast |-> lastFrequency, prevHistory |-> frequencyHistory,
     restart |-> (op = "started" /\ mediaStream = "stopped")]

\* smoothFrequency(frequency): the history and lastFrequency it leaves
smoothFrequency(frequency) ==
    /\ frequencyHistory' = PushHistory(frequencyHistory, frequency)
    /\ lastFrequency' = SmoothedValue(frequencyHistory, lastFrequency, frequency)

\* the three branches of detectPitch's body
NoSignalFrame(buffer, op) ==
    /\ noteDisplay' = "-"
    /\ frequencyDisplay' = "- Hz"
    /\ centsDisplay' = [text |-> "No signal", className |-> "cents"]
    /\ graph' = "axes"
    /\ UNCHANGED <<smoother, hist>>
    /\ ev' = Processed(op, "nosignal", NoPitch, NoPitch)

PitchFrame(frequency, op) ==
    LET smoothedFrequency == SmoothedValue(frequencyHistory, lastFrequency, frequency)
        note == frequencyToNote(smoothedFrequency)
        cents == frequencyToCents(smoothedFrequency, note.idealCents)
    IN /\ Len(rawInputs) < MaxFrames
       /\ smoothFrequency(frequency)
       /\ noteDisplay' = note.name \o ToString(note.octave)
       \* toFixed(2): the value in hundredths of a hertz
       /\ frequencyDisplay' = ToString(RoundDiv(smoothedFrequency, Scale \div 100))
       /\ centsDisplay' = [text |-> CentsText(cents), className |-> "cents " \o CentsClass(cents)]
       /\ graph' = MarkerColour(cents)
       /\ rawInputs' = Append(rawInputs, frequency)
       /\ emitted' = Append(emitted, smoothedFrequency)
       /\ ev' = Processed(op, "pitch", frequency, smoothedFrequency)

\* (variant of the "Detecting..." branch: the smoother is reset)
NoPitchFrameResets(frequency, op) ==
    /\ noteDisplay' = "-"
    /\ frequencyDisplay' = "- Hz"
    /\ centsDisplay' = [text |-> "Detecting...", className |-> "cents"]
    /\ graph' = "axes"
    /\ lastFrequency' = NoPitch
    /\ frequencyHistory' = <<>>
    /\ UNCHANGED hist
    /\ ev' = Processed(op, "detecting", frequency, NoPitch)
NoPitchFrame(frequency, op) ==
    /\ noteDisplay' = "-"
    /\ frequencyDisplay' = "- Hz"
    /\ centsDisplay' = [text |-> "Detecting...", className |-> "cents"]
    /\ graph' = "axes"
    /\ UNCHANGED <<smoother, hist>>
    /\ ev' = Processed(op, "detecting", frequency, NoPitch)

\* the body of detectPitch once isRunning is seen true, on the frame the analyser
\* delivers; pend holds the animation frames still requested when it runs
detectPitch(buffer, pend, op) ==
    /\ IF RmsBelowThreshold(buffer)
       THEN NoSignalFrame(buffer, op)
       ELSE IF autoCorrelate(buffer, sampleRate) > 0
            THEN PitchFrame(autoCorrelate(buffer, sampleRate), op)
            ELSE NoPitchFrame(autoCorrelate(buffer, sampleRate), op)
    /\ animationFrameId' = FreshFrameId(pend)
    /\ pendingFrames' = pend \cup {FreshFrameId(pend)}

---------------------------------------------------------------------------
(* startTuner, popup.js:29-73, in its two halves around the await          *)

\* a click on Start: the code up to the await of chrome.tabCapture.capture
ClickStart ==
    /\ startBtn # "none"
    /\ pendingCaptures < MaxPendingStarts
    /\ statusDiv' = "Requesting audio access..."
    /\ pendingCaptures' = pendingCaptures + 1
    /\ ev' = Ran("startTuner")
    /\ UNCHANGED <<isRunning, smoother, animationFrameId, audioContext, mediaStream,
                   controls, displays, pendingFrames, hist>>

\* the capture callback delivers a stream: lines 49-68, detectPitch() included
CaptureSucceeds ==
    /\ pendingCaptures > 0
    /\ Cardinality(pendingFrames) < MaxLoops
    /\ pendingCaptures' = pendingCaptures - 1
    /\ mediaStream' = "live"
    /\ audioContext' = "running"
    /\ isRunning' = TRUE
    /\ startBtn' = "none"
    /\ stopBtn' = "block"
    /\ tunerDiv' = "block"
    /\ statusDiv' = "Tuner active - play audio in this tab"
    /\ \E buffer \in Frames : detectPitch(buffer, pendingFrames, "started")

\* the capture callback reports an error or no stream: the catch block, lines 69-72
CaptureFails ==
    /\ pendingCaptures > 0
    /\ pendingCaptures' = pendingCaptures - 1
    /\ statusDiv' = "Error"
    /\ ev' = Ran("captureFailed")
    /\ UNCHANGED <<isRunning, smoother, animationFrameId, audioContext, mediaStream,
                   controls, displays, pendingFrames, hist>>

---------------------------------------------------------------------------
(* stopTuner, popup.js:76-103: a click on Stop                             *)

\* (variant: lines 100-101 left out)
stopTunerKeepsSmoother ==
    /\ stopBtn # "none"
    /\ isRunning' = FALSE
    /\ pendingFrames' = IF animationFrameId # 0 THEN pendingFrames \ {animationFrameId}
                        ELSE pendingFrames
    /\ mediaStream' = IF mediaStream # "null" THEN "stopped" ELSE mediaStream
    /\ audioContext' = IF audioContext # "null" THEN "closed" ELSE audioContext
    /\ startBtn' = "block"
    /\ stopBtn' = "none"
    /\ tunerDiv' = "none"
    /\ statusDiv' = "Click Start to begin tuning"
    /\ noteDisplay' = "-"
    /\ frequencyDisplay' = "- Hz"
    /\ centsDisplay' = [text |-> "-", className |-> centsDisplay.className]
    /\ graph' = "cleared"
    /\ rawInputs' = <<>>
    /\ emitted' = <<>>
    /\ ev' = Ran("stopTuner")
    /\ UNCHANGED <<smoother, animationFrameId, pendingCaptures>>
stopTuner ==
    /\ stopBtn # "none"
    /\ isRunning' = FALSE
    /\ pendingFrames' = IF animationFrameId # 0 THEN pendingFrames \ {animationFrameId}
                        ELSE pendingFrames
    /\ mediaStream' = IF mediaStream # "null" THEN "stopped" ELSE mediaStream
    /\ audioContext' = IF audioContext # "null" THEN "closed" ELSE audioContext
    /\ startBtn' = "block"
    /\ stopBtn' = "none"
    /\ tunerDiv' = "none"
    /\ statusDiv' = "Click Start to begin tuning"
    /\ noteDisplay' = "-"
    /\ frequencyDisplay' = "- Hz"
    /\ centsDisplay' = [text |-> "-", className |-> centsDisplay.className]
    /\ lastFrequency' = NoPitch
    /\ frequencyHistory' = <<>>
    /\ graph' = "cleared"
    /\ rawInputs' = <<>>
    /\ emitted' = <<>>
    /\ ev' = Ran("stopTuner")
    /\ UNCHANGED <<animationFrameId, pendingCaptures>>

---------------------------------------------------------------------------
(* The browser runs a requested animation frame: detectPitch, lines 106-163 *)

\* (variant: the callback does not look at isRunning)
AnimationFrameUnguarded ==
    \E id \in pendingFrames :
        /\ \E buffer \in Frames : detectPitch(buffer, pendingFrames \ {id}, "frame")
        /\ UNCHANGED <<isRunning, audioContext, mediaStream, controls, statusDiv,
                       pendingCaptures>>
AnimationFrame ==
    \E id \in pendingFrames :
        IF ~isRunning
        THEN /\ pendingFrames' = pendingFrames \ {id}
             /\ ev' = Ran("frame")
             /\ UNCHANGED <<isRunning, smoother, animationFrameId, audioContext, mediaStream,
                            controls, statusDiv, displays, pendingCaptures, hist>>
        ELSE /\ \E buffer \in Frames : detectPitch(buffer, pendingFrames \ {id}, "frame")
             /\ UNCHANGED <<isRunning, audioContext, mediaStream, controls, statusDiv,
                            pendingCaptures>>

---------------------------------------------------------------------------
(* The popup after its script has loaded (lines 1-26 and 402).  popup.html *)
(* is not among the sources: the buttons carry no inline display style and *)
(* the displays are taken to show what stopTuner leaves in them.           *)

Loaded ==
    /\ isRunning = FALSE
    /\ lastFrequency = NoPitch
    /\ frequencyHistory = <<>>
    /\ animationFrameId = 0
    /\ audioContext = "null"
    /\ mediaStream = "null"
    /\ startBtn = ""
    /\ stopBtn = ""
    /\ tunerDiv = ""
    /\ statusDiv = "Click Start to begin tuning"
    /\ noteDisplay = "-"
    /\ frequencyDisplay = "- Hz"
    /\ centsDisplay = [text |-> "-", className |-> "cents"]
    /\ graph = "cleared"
    /\ pendingCaptures = 0
    /\ pendingFrames = {}
    /\ rawInputs = <<>>
    /\ emitted = <<>>

Init == Loaded /\ ev = Ran("load")

Next ==
    \/ ClickStart
    \/ CaptureSucceeds
    \/ CaptureFails
    \/ stopTuner
    \/ AnimationFrame

Spec == Init /\ [][Next]_vars

---------------------------------------------------------------------------
(* smoothFrequency called again and again within one session               *)

\* estimates autoCorrelate can return
Estimates == {Hz(82), Hz(220), Hz(250), Hz(440), Hz(1000)}

tuner == <<isRunning, animationFrameId, audioContext, mediaStream, controls, statusDiv,
           displays, pendingCaptures, pendingFrames>>

Smooth ==
    \E frequency \in Estimates :
        /\ Len(rawInputs) < MaxCalls
        /\ smoothFrequency(frequency)
        /\ rawInputs' = Append(rawInputs, frequency)
        /\ emitted' = Append(emitted, SmoothedValue(frequencyHistory, lastFrequency, frequency))
        /\ ev' = Processed("smoothFrequency", "pitch", frequency,
                           SmoothedValue(frequencyHistory, lastFrequency, frequency))
        /\ UNCHANGED tuner

SmootherSpec == Init /\ [][Smooth]_vars

---------------------------------------------------------------------------
(* The pitch pipeline as a function of one frame and a sample rate: the    *)
(* gate of detectPitch (lines 114-116), then autoCorrelate                 *)

\* sumSq of a frame of the given size: silent, rms just below 0.01, rms 0.01, rms 0.5
Energies(size) == {0, size - 1, size, size * 2500}

\* correlation profiles of full frames
LongProfiles ==
    { NoCorrelation,
      (100 :> 40 @@ 300 :> 35),
      (100 :> 50),
      (100 :> 51),
      (44 :> 90),
      (48 :> 90),
      (49 :> 90 @@ 48 :> 85 @@ 50 :> 60),
      (217 :> 60 @@ 218 :> 90 @@ 219 :> 76),
      (108 :> 38 @@ 109 :> 90 @@ 110 :> 54),
      (584 :> 90),
      (585 :> 90) }

\* correlation profiles of a frame of 92 samples: offsets up to 46 are computable
ShortProfiles ==
    { NoCorrelation,
      (44 :> 80 @@ 45 :> 90 @@ 46 :> 125),
      (44 :> 80 @@ 45 :> 90 @@ 46 :> 122),
      (44 :> 80 @@ 45 :> 90 @@ 46 :> 70),
      (30 :> 95) }

ShortSize == 2 * 46

Buffers ==
    {[size |-> 0, sumSq |-> 0, corr |-> NoCorrelation]}
    \cup {[size |-> ShortSize, sumSq |-> e, corr |-> c] : e \in Energies(ShortSize), c \in ShortProfiles}
    \cup {[size |-> fftSize, sumSq |-> e, corr |-> c] : e \in Energies(fftSize), c \in LongProfiles}

SampleRates == {-48000, 0, 44100, 48000}

\* what detectPitch's branches make of the frame: "nosignal", "detecting" or "pitch".
\* No statement of lines 109-125 and 166-250 throws, whatever the frame.
PipelineOutcome(buffer, rate) ==
    IF RmsBelowThreshold(buffer) THEN "nosignal"
    ELSE IF autoCorrelate(buffer, rate) > 0 THEN "pitch"
    ELSE "detecting"

EstimatorInit ==
    /\ Loaded
    /\ \E buffer \in Buffers, rate \in SampleRates :
          ev = [op |-> "frame", buffer |-> buffer, rate |-> rate]

Estimate ==
    /\ ev.op = "frame"
    /\ ev' = [op |-> "autoCorrelate", buffer |-> ev.buffer, rate |-> ev.rate,
              outcome |-> PipelineOutcome(ev.buffer, ev.rate),
              candidate |-> Candidate(ev.buffer, ev.rate),
              result |-> autoCorrelate(ev.buffer, ev.rate)]
    /\ UNCHANGED <<tuner, smoother, hist>>

EstimatorSpec == EstimatorInit /\ [][Estimate]_vars

---------------------------------------------------------------------------
(* frequencyToNote as a function of a positive frequency                   *)

NoteInputs == {Hz(n) : n \in 1..100} \cup {Hz(220), Hz(440), Hz(880), Hz(1000)}

NoteInit ==
    /\ Loaded
    /\ \E frequency \in NoteInputs : ev = [op |-> "frequency", frequency |-> frequency]

MapNote ==
    /\ ev.op = "frequency"
    /\ ev' = [op |-> "frequencyToNote", frequency |-> ev.frequency,
              note |-> frequencyToNote(ev.frequency)]
    /\ UNCHANGED <<tuner, smoother, hist>>

NoteSpec == NoteInit /\ [][MapNote]_vars

---------------------------------------------------------------------------
(* Properties                                                              *)

\* C1: a frame that yields no pitch (RMS below 0.01, or autoCorrelate returning -1)
\* leaves frequencyHistory and lastFrequency exactly as the frame found them.
C1_NoPitchFrameKeepsSmoother ==
    (ev.op \in {"started", "frame"} /\ ev.path \in {"nosignal", "detecting"})
        => (lastFrequency = ev.prevLast /\ frequencyHistory = ev.prevHistory)

\* a no-pitch frame has just been processed in a session that had a history
C1_Witness ==
    /\ ev.op = "frame"
    /\ ev.path = "detecting"
    /\ lastFrequency > 0
    /\ Len(frequencyHistory) >= 2

\* C2: frequencyHistory holds at most 5 entries, and they are the most recent (up to
\* 5) raw arguments of smoothFrequency in arrival order, never the smoothed results.
C2_HistoryIsRecentRawInputs ==
    LET n == Len(rawInputs)
    IN /\ Len(frequencyHistory) <= 5
       /\ frequencyHistory = SubSeq(rawInputs, IF n > 5 THEN n - 4 ELSE 1, n)

\* a sixth estimate has arrived, and the last result differs from the last raw value
C2_Witness ==
    /\ Len(rawInputs) >= 6
    /\ emitted[Len(emitted)] # rawInputs[Len(rawInputs)]
    /\ frequencyHistory[1] # rawInputs[1]

\* C3: stopTuner leaves lastFrequency unset and frequencyHistory empty, and the first
\* valid estimate of every session (the first since the popup loaded or since the
\* last stopTuner) is returned unchanged and becomes lastFrequency.
C3_FirstEstimateOfSessionUnchanged ==
    /\ ev.op = "stopTuner" => (lastFrequency = NoPitch /\ frequencyHistory = <<>>)
    /\ rawInputs = <<>> => (lastFrequency = NoPitch /\ frequencyHistory = <<>>)
    /\ rawInputs # <<>> => emitted[1] = rawInputs[1]
    /\ (ev.path = "pitch" /\ Len(rawInputs) = 1)
           => (ev.prevLast = NoPitch /\ ev.out = ev.raw /\ lastFrequency = ev.raw)

\* a session started after an earlier start/stop cycle has processed its first estimate
C3_Witness ==
    /\ ev.op = "started"
    /\ ev.restart
    /\ ev.path = "pitch"
    /\ Len(rawInputs) = 1

\* C4: there is never more than one pending animation-frame callback of detectPitch.
C4_SingleFrameLoop == Cardinality(pendingFrames) <= 1

\* C5: when a last frequency exists and the ratio new/last is within 0.1 of 0.5 or
\* within 0.2 of 2.0, the result is last*0.9 + new*0.1: it lies strictly between the
\* two, one tenth of the way from last to new.  Steady 220 Hz frames with a single
\* 440 Hz frame among them never emit 440 Hz; the outlier frame emits 242 Hz.
C5_OctaveJumpDefense ==
    /\ (/\ ev.op = "smoothFrequency"
        /\ ev.prevLast > 0
        /\ \/ Abs(10 * ev.raw - 5 * ev.prevLast) < ev.prevLast
           \/ Abs(5 * ev.raw - 10 * ev.prevLast) < ev.prevLast)
       => /\ Abs(10 * ev.out - (9 * ev.prevLast + ev.raw)) <= 5
          /\ ev.out # ev.raw
          /\ \/ ev.prevLast < ev.out /\ ev.out < ev.raw
             \/ ev.raw < ev.out /\ ev.out < ev.prevLast
    /\ \A j \in 2..Len(rawInputs) :
          (/\ rawInputs[j] = Hz(440)
           /\ \A i \in 1..Len(rawInputs) : i # j => rawInputs[i] = Hz(220))
          => /\ emitted[j] = Hz(242)
             /\ \A i \in 1..Len(emitted) : emitted[i] < Hz(250)

\* 220, 220, 440, 220 has been fed
C5_Witness ==
    /\ ev.op = "smoothFrequency"
    /\ rawInputs = <<Hz(220), Hz(220), Hz(440), Hz(220)>>

\* C6 as stated: no ratio new/last satisfies both the octave-suspicion and the
\* normal-variation condition.
C6_BandsNeverOverlap ==
    (ev.op = "smoothFrequency" /\ ev.prevLast > 0)
        => ~(OctaveBand(ev.raw, ev.prevLast) /\ NormalBand(ev.raw, ev.prevLast))

\* C6 amended: both conditions hold exactly when 0.5 < new/last < 0.6, and there
\* smoothFrequency returns last*0.9 + new*0.1, the octave branch being tested first.
C6_OverlapTakesOctaveBranch ==
    (ev.op = "smoothFrequency" /\ ev.prevLast > 0)
        => LET both == OctaveBand(ev.raw, ev.prevLast) /\ NormalBand(ev.raw, ev.prevLast)
           IN /\ both <=> (2 * ev.raw > ev.prevLast /\ 5 * ev.raw < 3 * ev.prevLast)
              /\ both => Abs(10 * ev.out - (9 * ev.prevLast + ev.raw)) <= 5

\* an estimate whose ratio to the last frequency lies in both bands has been smoothed
C6_Witness ==
    /\ ev.op = "smoothFrequency"
    /\ ev.prevLast > 0
    /\ OctaveBand(ev.raw, ev.prevLast)
    /\ NormalBand(ev.raw, ev.prevLast)

\* C7: on a large non-octave jump the result is the median of the history that
\* includes the new value (index floor(n/2) of the sorted history) when it has
\* n >= 3 entries, and the raw new value otherwise; lastFrequency is the result.
C7_LargeJumpReturnsMedian ==
    (/\ ev.op = "smoothFrequency"
     /\ ev.prevLast > 0
     /\ ~(\/ Abs(10 * ev.raw - 5 * ev.prevLast) < ev.prevLast
          \/ Abs(5 * ev.raw - 10 * ev.prevLast) < ev.prevLast)
     /\ ~(Abs(2 * ev.raw - 2 * ev.prevLast) < ev.prevLast))
    => LET h == frequencyHistory
           n == Len(h)
       IN /\ h[n] = ev.raw
          /\ lastFrequency = ev.out
          /\ IF n >= 3
             THEN /\ \E i \in 1..n : h[i] = ev.out
                  /\ Cardinality({i \in 1..n : h[i] < ev.out}) <= n \div 2
                  /\ Cardinality({i \in 1..n : h[i] <= ev.out}) >= n \div 2 + 1
             ELSE ev.out = ev.raw

\* a large jump with three or more entries, whose median is not the new value
C7_Witness ==
    /\ ev.op = "smoothFrequency"
    /\ ev.prevLast > 0
    /\ ~OctaveBand(ev.raw, ev.prevLast)
    /\ ~NormalBand(ev.raw, ev.prevLast)
    /\ Len(frequencyHistory) >= 3
    /\ ev.out # ev.raw
    /\ ev.out # ev.prevLast

\* C8: autoCorrelate returns -1 or a frequency f with 82 <= f <= 1000; a candidate
\* sampleRate / refined_offset of a strong peak is accepted exactly when it lies in
\* that interval, both ends included.
C8_ResultInRangeOrNoPitch ==
    ev.op = "autoCorrelate"
        => /\ ev.result = NoPitch \/ (Hz(82) <= ev.result /\ ev.result <= Hz(1000))
           /\ (/\ ev.outcome # "nosignal"
               /\ ev.candidate.found
               /\ ev.candidate.strong
               /\ ev.candidate.fd > 0)
              => (ev.result # NoPitch
                    <=> /\ 82 * ev.candidate.fd <= ev.candidate.fn
                        /\ ev.candidate.fn <= 1000 * ev.candidate.fd)

\* a refined offset gives exactly 1000 Hz, and it is returned
C8_Witness ==
    /\ ev.op = "autoCorrelate"
    /\ ev.candidate.refined
    /\ ev.result = Hz(1000)

\* C9: an empty frame, a frame shorter than 2*MAX_OFFSET or a non-positive sample
\* rate makes the pipeline raise an error.
C9_InvalidInputRaises ==
    (/\ ev.op = "autoCorrelate"
     /\ \/ ev.buffer.size = 0
        \/ ev.buffer.size < 2 * (ev.rate \div MIN_FREQUENCY)
        \/ ev.rate <= 0)
    => ev.outcome = "error"

\* C10: for the MIDI index n frequencyToNote computes, octave = floor(n/12) - 1 and
\* name is the pitch-class table entry at n mod 12, one of the 12 labels.
C10_NameAndOctaveFromIndex ==
    ev.op = "frequencyToNote"
        => LET n == ev.note.midiNote
           IN /\ ev.note.octave = (n \div 12) - 1
              /\ ev.note.name = noteStrings[(n % 12) + 1]
              /\ n = 69 => (ev.note.name = "A" /\ ev.note.octave = 4)
              /\ n = 0 => (ev.note.name = "C" /\ ev.note.octave = -1)

\* C11: whenever a pitch is detected and the integer cents deviation c is within
\* -5..5, the display reads "In Tune" and the marker is green; "Sharp" (red) is shown
\* only for c above that range and "Flat" (blue) only for c below it; the class of
\* the text and the colour of the marker agree.
C11_InTuneWithinFiveCents ==
    (ev.op \in {"started", "frame"} /\ ev.path = "pitch") =>
        LET note == frequencyToNote(ev.out)
            c == frequencyToCents(ev.out, note.idealCents)
        IN /\ (c >= -5 /\ c <= 5) =>
                  (centsDisplay.className = "cents in-tune" /\ graph = "green")
           /\ centsDisplay.className = "cents sharp" => c > 5
           /\ centsDisplay.className = "cents flat" => c < -5
           /\ (centsDisplay.className = "cents in-tune") = (graph = "green")
           /\ (centsDisplay.className = "cents sharp") = (graph = "red")
           /\ (centsDisplay.className = "cents flat") = (graph = "blue")

\* C12: when every raw estimate passed to smoothFrequency lies in [82, 1000] Hz, every
\* stabilized frequency it returned lies in [82, 1000] Hz too, and lastFrequency is the
\* sentinel -1 before the first estimate and a positive value in that range after it.
C12_SmoothedStaysInRange ==
    (\A i \in 1..Len(rawInputs) : InRange(rawInputs[i], Scale)) =>
        /\ \A i \in 1..Len(emitted) : InRange(emitted[i], Scale)
        /\ IF rawInputs = <<>>
           THEN lastFrequency = NoPitch
           ELSE lastFrequency > 0 /\ InRange(lastFrequency, Scale)

\* an estimate at the upper end of the range has just been blended with a different
\* previous value, in a run that also saw an estimate at the lower end
C12_Witness ==
    /\ ev.op = "smoothFrequency"
    /\ ev.raw = Hz(MAX_FREQUENCY)
    /\ ev.prevLast > 0
    /\ NormalBand(ev.raw, ev.prevLast)
    /\ ev.out # ev.raw
    /\ ev.out # ev.prevLast
    /\ Hz(MIN_FREQUENCY) \in {rawInputs[i] : i \in 1..Len(rawInputs)}

\* C13: while isRunning is false, from stopTuner until the next successful start, no
\* frame is processed: an animation-frame callback that runs then takes no branch of
\* detectPitch, and no step other than stopTuner itself changes the smoother state or
\* the note, frequency and cents displays and the graph, or requests an animation frame.
C13_NoFrameWhileStopped ==
    [][(~isRunning /\ ~isRunning' /\ ev'.op # "stopTuner") =>
           /\ UNCHANGED <<smoother, displays>>
           /\ pendingFrames' \subseteq pendingFrames
           /\ animationFrameId' = animationFrameId
           /\ ev'.op = "frame" => ev'.path = ""]_vars

\* an animation frame requested before Stop has run after it, in a session that had
\* shown a pitch, and found the tuner stopped
C13_Witness ==
    /\ ev.op = "frame"
    /\ ev.path = ""
    /\ ~isRunning
    /\ stopBtn = "none"
    /\ centsDisplay.className # "cents"
    /\ lastFrequency = NoPitch
    /\ frequencyHistory = <<>>
    /\ noteDisplay = "-"
====
